---- MODULE Spec2Model ----
(***************************************************************************)
(* Account JSON store: the atomic writer of Uploader.py, the in-place      *)
(* rewrite of editor.py and the bundle readers / path resolvers of acc.py. *)
(*                                                                         *)
(* A file's content is the sequence of tokens json.dump writes; a          *)
(* truncated file is a proper prefix of it.  Strings that are inspected    *)
(* character by character (account ids) are sequences of one-character     *)
(* strings.                                                                *)
(***************************************************************************)
EXTENDS Integers, Sequences, FiniteSets, TLC

\* ------------------------------------------------------------------ bounds
\* Timestamps of time.strftime("%Y%m%d-%H%M%S") are the seconds 0..MaxClock.
MaxClock == 1
\* Upload requests accepted in one run.
MaxWrites == 2
\* Longest account id the resolvers are tried on.
MaxIdLen == 2
\* Directories the resolvers may have created in one run.
MaxDirs == 2
\* Runs of the migration script.
MaxEdits == 1
\* Writes that fail or are interrupted in one run.
MaxFails == 1

MaxCalls == 3

\* ------------------------------------------------------------- JSON values
\* An object is the sequence of its keys (a key stands for its "key": value
\* pair); an array is a sequence of objects.
Obj(ks) == [t |-> "obj", keys |-> ks]

Arr(es) == [t |-> "arr", elems |-> es]

WsTokens == {"\n", " "}

RECURSIVE Spaces(_)
Spaces(n) == IF n <= 0 THEN <<>> ELSE <<" ">> \o Spaces(n - 1)

\* json.encoder: with an indent, every item starts on a new line indented by
\* indent * level spaces.
NewlineIndent(indent, level) == <<"\n">> \o Spaces(indent * level)

RECURSIVE DumpKeys(_, _, _)
DumpKeys(ks, indent, level) ==
    IF Len(ks) = 1 THEN <<Head(ks)>>
    ELSE <<Head(ks), ",">> \o NewlineIndent(indent, level) \o DumpKeys(Tail(ks), indent, level)

DumpObj(o, indent, level) ==
    IF o.keys = <<>> THEN <<"{", "}">>
    ELSE <<"{">> \o NewlineIndent(indent, level + 1)
         \o DumpKeys(o.keys, indent, level + 1)
         \o NewlineIndent(indent, level) \o <<"}">>

RECURSIVE DumpElems(_, _, _)
DumpElems(es, indent, level) ==
    IF Len(es) = 1 THEN DumpObj(Head(es), indent, level)
    ELSE DumpObj(Head(es), indent, level) \o <<",">> \o NewlineIndent(indent, level)
         \o DumpElems(Tail(es), indent, level)

DumpArr(a, indent, level) ==
    IF a.elems = <<>> THEN <<"[", "]">>
    ELSE <<"[">> \o NewlineIndent(indent, level + 1)
         \o DumpElems(a.elems, indent, level + 1)
         \o NewlineIndent(indent, level) \o <<"]">>

\* json.dump(payload, f, ensure_ascii=False, indent=indent): the text written.
Dump(v, indent) ==
    IF v.t = "arr" THEN DumpArr(v, indent, 0) ELSE DumpObj(v, indent, 0)

\* ---- json.load: a recursive-descent parse of the token text.
RECURSIVE SkipWs(_, _)
SkipWs(s, i) == IF i <= Len(s) /\ s[i] \in WsTokens THEN SkipWs(s, i + 1) ELSE i

ParseFail == [ok |-> FALSE]

IsKeyToken(tok) == tok \notin (WsTokens \cup {"{", "}", "[", "]", ","})

\* Keys after "{" or after a ",": [ok, val (the keys), next].
RECURSIVE ParseKeys(_, _, _)
ParseKeys(s, i, acc) ==
    LET j == SkipWs(s, i) IN
    IF j > Len(s) \/ ~IsKeyToken(s[j]) THEN ParseFail
    ELSE LET k == SkipWs(s, j + 1) IN
         IF k > Len(s) THEN ParseFail
         ELSE IF s[k] = "}" THEN [ok |-> TRUE, val |-> Append(acc, s[j]), next |-> k + 1]
         ELSE IF s[k] = "," THEN ParseKeys(s, k + 1, Append(acc, s[j]))
         ELSE ParseFail

\* An object starting at s[i] = "{".
ParseObj(s, i) ==
    LET j == SkipWs(s, i + 1) IN
    IF j > Len(s) THEN ParseFail
    ELSE IF s[j] = "}" THEN [ok |-> TRUE, val |-> Obj(<<>>), next |-> j + 1]
    ELSE LET r == ParseKeys(s, j, <<>>) IN
         IF r.ok THEN [ok |-> TRUE, val |-> Obj(r.val), next |-> r.next] ELSE ParseFail

RECURSIVE ParseElems(_, _, _)
ParseElems(s, i, acc) ==
    LET j == SkipWs(s, i) IN
    IF j > Len(s) \/ s[j] # "{" THEN ParseFail
    ELSE LET r == ParseObj(s, j) IN
         IF ~r.ok THEN ParseFail
         ELSE LET k == SkipWs(s, r.next) IN
              IF k > Len(s) THEN ParseFail
              ELSE IF s[k] = "]" THEN [ok |-> TRUE, val |-> Append(acc, r.val), next |-> k + 1]
              ELSE IF s[k] = "," THEN ParseElems(s, k + 1, Append(acc, r.val))
              ELSE ParseFail

ParseArr(s, i) ==
    LET j == SkipWs(s, i + 1) IN
    IF j > Len(s) THEN ParseFail
    ELSE IF s[j] = "]" THEN [ok |-> TRUE, val |-> Arr(<<>>), next |-> j + 1]
    ELSE LET r == ParseElems(s, j, <<>>) IN
         IF r.ok THEN [ok |-> TRUE, val |-> Arr(r.val), next |-> r.next] ELSE ParseFail

\* json.load(f): [ok |-> TRUE, val |-> v], or ParseFail for JSONDecodeError
\* (an empty or truncated text, or text after the value).
Load(s) ==
    LET i == SkipWs(s, 1) IN
    IF i > Len(s) THEN ParseFail
    ELSE LET r == IF s[i] = "{" THEN ParseObj(s, i)
                  ELSE IF s[i] = "[" THEN ParseArr(s, i)
                  ELSE ParseFail IN
         IF r.ok /\ SkipWs(s, r.next) > Len(s) THEN [ok |-> TRUE, val |-> r.val]
         ELSE ParseFail

\* ------------------------------------------------------------ configuration
\* Uploader.py and acc.py are taken to share one ACCOUNT_DATA_DIR.
\* ACCOUNT_FILENAMES (the same table in Uploader.py and acc.py).
ACCOUNT_FILENAMES ==
    [transactions |-> "transactions.json", payments |-> "payments.json",
     statements |-> "statements.json", account_summary |-> "account_summary.json"]

Domains == DOMAIN ACCOUNT_FILENAMES

\* The account the uploads and the migration script work on, an account
\* nothing is ever written for, and an id the sanitizer rejects.
Acct == <<"a">>

MissingAcct == <<"m">>

BadAcct == <<"a", "/">>

Writers == {"w1", "w2"}

\* ------------------------------------------------------------- file system
\* A directory entry: a document, one of its backups (bak >= 0, the
\* timestamp), or a writer's temporary file.
DocPath(a, d) == [dir |-> a, file |-> ACCOUNT_FILENAMES[d], bak |-> -1, tmp |-> ""]

\* target.with_suffix(target.suffix + f".{ts}.bak")
BackupPath(target, ts) == [target EXCEPT !.bak = ts]

\* NamedTemporaryFile(dir=str(target.parent)): a fresh name in the same directory.
TempPath(target, w) == [dir |-> target.dir, file |-> "", bak |-> -1, tmp |-> w]

Put(f, n, c) == [m \in (DOMAIN f) \cup {n} |-> IF m = n THEN c ELSE f[m]]

Remove(f, n) == [m \in (DOMAIN f) \ {n} |-> f[m]]

Exists(f, n) == n \in DOMAIN f

\* Writing text from offset 0 into a file that is not truncated first.
Overwrite(old, new) == new \o SubSeq(old, Len(new) + 1, Len(old))

\* The truncated states of a text being written that are followed here: the
\* shortest and the longest proper prefix (any proper prefix fails to parse).
PartialWrites(s) == {SubSeq(s, 1, k) : k \in {0, Len(s) - 1}}

BackupsIn(f) == {n \in DOMAIN f : n.bak >= 0}

\* ------------------------------------------------------------------- state
VARIABLES
    now,      \* the clock, in seconds
    dirs,     \* the account directories that exist under ACCOUNT_DATA_DIR
    fs,       \* the files: path -> text
    pc,       \* each upload request's position in upload_single / _atomic_write_json
    wr,       \* each upload request's arguments and locals
    res,      \* each upload request's response
    nwrites,  \* upload requests accepted so far
    nfails,   \* writes that failed or were interrupted so far
    ed,       \* the migration script's position and locals
    rd,       \* the last bundle read and its outcome
    cache,    \* the lru_cache of load_account_bundle: account_id -> bundle
    rs,       \* the last path resolution and its outcome
    held,     \* history: the complete texts the documents have held, per path
    lastRep,  \* history: the request whose os.replace ran last, per path
    coll,     \* the release_tags collection: projectId -> document
    ut,       \* each update_release_tags call's position, arguments and locals
    ncalls,   \* update_release_tags calls started so far
    asked     \* history: the issues handed to update_release_tags, per projectId

vars == <<now, dirs, fs, pc, wr, res, nwrites, nfails, ed, rd, cache, rs, held, lastRep,
          coll, ut, ncalls, asked>>

NoValue == Obj(<<>>)

NoWrite ==
    [acct |-> <<>>, domain |-> "", payload |-> NoValue, indent |-> 0,
     backup |-> FALSE, ts |-> -1, existed |-> FALSE, src |-> <<>>, replacedExisting |-> FALSE]

NoResult == [status |-> "", size |-> 0]

Target(w) == DocPath(wr[w].acct, wr[w].domain)

EmptyFs == [n \in {} |-> <<>>]

\* ------------------------------------------------------------ identifiers
\* The class [A-Za-z0-9_\-] and the characters the resolvers are tried on.
SafeChars == {"a", "Z", "0", "_", "-"}

Whitespace == {" ", "\n", "\t"}

IdChars == {"a", "_", " ", "/"}

RECURSIVE SeqsUpTo(_, _)
SeqsUpTo(S, n) ==
    IF n = 0 THEN {<<>>}
    ELSE LET shorter == SeqsUpTo(S, n - 1) IN
         shorter \cup {Append(s, c) : s \in shorter, c \in S}

Ids == SeqsUpTo(IdChars, MaxIdLen)

RECURSIVE LStrip(_)
LStrip(s) == IF s # <<>> /\ Head(s) \in Whitespace THEN LStrip(Tail(s)) ELSE s

RECURSIVE RStrip(_)
RStrip(s) ==
    IF s # <<>> /\ s[Len(s)] \in Whitespace THEN RStrip(SubSeq(s, 1, Len(s) - 1)) ELSE s

\* str.strip()
Strip(s) == RStrip(LStrip(s))

AllSafe(s) == s # <<>> /\ \A i \in 1..Len(s) : s[i] \in SafeChars

\* _id_ok.match(s) for re.compile(r"^[A-Za-z0-9_\-]+$"): Python's $ also
\* matches just before a final newline.
IdOkMatch(s) ==
    \/ AllSafe(s)
    \/ s # <<>> /\ s[Len(s)] = "\n" /\ AllSafe(SubSeq(s, 1, Len(s) - 1))

\* constr(pattern=r"^[A-Za-z0-9_\-]+$"): the request models' accountId.
VALID_ACCOUNT(s) == AllSafe(s)

\* acc.py _sanitize_account_id: [ok, id]; ~ok is the ValueError.
SanitizeAccountId(id) ==
    LET stripped == Strip(id) IN
    IF ~IdOkMatch(stripped) THEN [ok |-> FALSE, id |-> stripped]
    ELSE [ok |-> TRUE, id |-> stripped]

\* acc.py account_dir: the folder (not created), or the ValueError.
AccountDirOf(id) ==
    LET sane == SanitizeAccountId(id) IN
    IF sane.ok THEN [kind |-> "path", dir |-> sane.id]
    ELSE [kind |-> "ValueError", dir |-> <<>>]

\* acc.py get_account_paths: the four paths, or FileNotFoundError when the
\* folder does not exist.
GetAccountPathsOf(id, dirset) ==
    LET base == AccountDirOf(id) IN
    IF base.kind # "path" THEN base
    ELSE IF base.dir \notin dirset THEN [kind |-> "FileNotFoundError", dir |-> base.dir]
    ELSE [kind |-> "paths", dir |-> base.dir]

\* Uploader.py _account_dir: ACCOUNT_DATA_DIR / account_id, created; no check
\* of account_id here.  The folder is named by the id as given.
UploaderAccountDirOf(id) == [kind |-> "path", dir |-> id]

\* Uploader.py _target_path: HTTPException 400 for an unknown domain, else the
\* file under _account_dir(account_id).
TargetPathOf(id, domain) ==
    IF domain \notin Domains THEN [kind |-> "HTTP400", dir |-> <<>>]
    ELSE UploaderAccountDirOf(id)

NoResolve == [fn |-> "", id |-> <<>>, kind |-> "", dir |-> <<>>]

Resolved(fn, id, r) == [fn |-> fn, id |-> id, kind |-> r.kind, dir |-> r.dir]

StoreUnchanged == UNCHANGED <<coll, ut, ncalls, asked, now, fs, pc, wr, res, nwrites, nfails, ed, rd, cache, held, lastRep>>

\* acc.py account_dir(account_id)
AccountDir(id) ==
    /\ rs' = Resolved("account_dir", id, AccountDirOf(id))
    /\ UNCHANGED dirs
    /\ StoreUnchanged

\* acc.py get_account_paths(account_id)
GetAccountPaths(id) ==
    /\ rs' = Resolved("get_account_paths", id, GetAccountPathsOf(id, dirs))
    /\ UNCHANGED dirs
    /\ StoreUnchanged

\* Uploader.py _account_dir(account_id): mkdir(parents=True, exist_ok=True)
UploaderAccountDir(id) ==
    /\ id \in dirs \/ Cardinality(dirs) < MaxDirs
    /\ rs' = Resolved("_account_dir", id, UploaderAccountDirOf(id))
    /\ dirs' = dirs \cup {id}
    /\ StoreUnchanged

\* Uploader.py _target_path(account_id, domain)
TargetPath(id, domain) ==
    /\ id \in dirs \/ Cardinality(dirs) < MaxDirs
    /\ LET r == TargetPathOf(id, domain) IN
       /\ rs' = Resolved("_target_path", id, r)
       /\ dirs' = IF r.kind = "path" THEN dirs \cup {r.dir} ELSE dirs
    /\ StoreUnchanged

\* Uploader.py where(accountId): FastAPI validates accountId against
\* VALID_ACCOUNT (422 otherwise), then _account_dir creates the folder.
Where(id) ==
    /\ id \in dirs \/ Cardinality(dirs) < MaxDirs
    /\ IF VALID_ACCOUNT(id)
       THEN /\ rs' = Resolved("where", id, UploaderAccountDirOf(id))
            /\ dirs' = dirs \cup {id}
       ELSE /\ rs' = Resolved("where", id, [kind |-> "HTTP422", dir |-> <<>>])
            /\ UNCHANGED dirs
    /\ StoreUnchanged

\* ------------------------------------------------------------------ uploads
\* The test of line 79 inverted: a backup only when there is nothing to back up.
NeedsBackupInverted(backup_existing, exists) == backup_existing /\ ~exists

\* Uploader.py line 79: backup_existing and target.exists()
NeedsBackup(backup_existing, exists) == backup_existing /\ exists

\* A move in place of the copy: the target is renamed to the backup name.
MoveToBackup(f, src, dst) == Remove(Put(f, dst, f[src]), src)

\* shutil.copy2(target, backup), first half: the destination is opened for
\* writing (created or truncated); the source stays in place.
CopyOpen(f, src, dst) == Put(f, dst, <<>>)

\* Uploader.py line 95, evaluated after os.replace.
StatusOf(existsNow) == IF existsNow THEN "updated" ELSE "created"

\* The migration script's file: STATEMENTS_FILE.
EdPath == DocPath(Acct, "statements")

ReadUnchanged == UNCHANGED <<rd, cache, rs>>

\* upload_single(domain, payload) up to its call of _atomic_write_json: the
\* request model validates accountId, _target_path checks the domain and
\* creates the account folder.
UploadSingle(w, a, d, p, indent, backup) ==
    /\ pc[w] = "idle"
    /\ nwrites < MaxWrites
    /\ LET r == TargetPathOf(a, d) IN
       IF ~VALID_ACCOUNT(a) \/ r.kind # "path"
       THEN /\ pc' = [pc EXCEPT ![w] = "failed"]
            /\ res' = [res EXCEPT ![w] =
                          [status |-> IF ~VALID_ACCOUNT(a) THEN "HTTP422" ELSE r.kind,
                           size |-> 0]]
            /\ UNCHANGED <<wr, dirs, nwrites, nfails>>
       ELSE /\ pc' = [pc EXCEPT ![w] = "check"]
            /\ nwrites' = nwrites + 1
            /\ UNCHANGED nfails
            /\ wr' = [wr EXCEPT ![w] =
                         [NoWrite EXCEPT !.acct = a, !.domain = d, !.payload = p,
                                         !.indent = indent, !.backup = backup]]
            /\ dirs' = dirs \cup {r.dir}
            /\ UNCHANGED res
    /\ UNCHANGED <<coll, ut, ncalls, asked, now, fs, ed, held, lastRep>>
    /\ ReadUnchanged

\* _atomic_write_json lines 77-81: mkdir of the parent, then the decision to
\* back up and the backup's timestamp.
AwCheck(w) ==
    /\ pc[w] = "check"
    /\ dirs' = dirs \cup {wr[w].acct}
    /\ LET exists == Exists(fs, Target(w)) IN
       IF NeedsBackup(wr[w].backup, exists)
       THEN /\ wr' = [wr EXCEPT ![w].existed = exists, ![w].ts = now]
            /\ pc' = [pc EXCEPT ![w] = "copyopen"]
       ELSE /\ wr' = [wr EXCEPT ![w].existed = exists]
            /\ pc' = [pc EXCEPT ![w] = "temp"]
    /\ UNCHANGED <<coll, ut, ncalls, asked, now, fs, res, nwrites, nfails, ed, held, lastRep>>
    /\ ReadUnchanged

\* line 82, shutil.copy2 opening its files: the source is read through the
\* handle opened here (a later rename does not change what it reads).
AwCopyOpen(w) ==
    /\ pc[w] = "copyopen"
    /\ IF Exists(fs, Target(w))
       THEN /\ wr' = [wr EXCEPT ![w].src = fs[Target(w)]]
            /\ fs' = CopyOpen(fs, Target(w), BackupPath(Target(w), wr[w].ts))
            /\ pc' = [pc EXCEPT ![w] = "copywrite"]
            /\ UNCHANGED res
       ELSE /\ pc' = [pc EXCEPT ![w] = "failed"]
            /\ res' = [res EXCEPT ![w] = [status |-> "IOError", size |-> 0]]
            /\ UNCHANGED <<wr, fs>>
    /\ UNCHANGED <<coll, ut, ncalls, asked, now, dirs, nwrites, nfails, ed, held, lastRep>>
    /\ ReadUnchanged

\* line 82, shutil.copy2 writing the destination from offset 0.
AwCopyWrite(w) ==
    /\ pc[w] = "copywrite"
    /\ LET backup == BackupPath(Target(w), wr[w].ts) IN
       fs' = Put(fs, backup, Overwrite(IF Exists(fs, backup) THEN fs[backup] ELSE <<>>, wr[w].src))
    /\ pc' = [pc EXCEPT ![w] = "temp"]
    /\ UNCHANGED <<coll, ut, ncalls, asked, now, dirs, wr, res, nwrites, nfails, ed, held, lastRep>>
    /\ ReadUnchanged

\* lines 85-89: the temporary file, written in full, flushed and synced.
AwTempWrite(w) ==
    /\ pc[w] = "temp"
    /\ fs' = Put(fs, TempPath(Target(w), w), Dump(wr[w].payload, wr[w].indent))
    /\ pc' = [pc EXCEPT ![w] = "replace"]
    /\ UNCHANGED <<coll, ut, ncalls, asked, now, dirs, wr, res, nwrites, nfails, ed, held, lastRep>>
    /\ ReadUnchanged

\* lines 85-89 failing part-way (serialization error, disk full): the
\* temporary file (delete=False) is left behind with what was written.
AwTempFail(w) ==
    /\ pc[w] = "temp"
    /\ nfails < MaxFails
    /\ \E part \in PartialWrites(Dump(wr[w].payload, wr[w].indent)) :
          fs' = Put(fs, TempPath(Target(w), w), part)
    /\ pc' = [pc EXCEPT ![w] = "failed"]
    /\ res' = [res EXCEPT ![w] = [status |-> "IOError", size |-> 0]]
    /\ nfails' = nfails + 1
    /\ UNCHANGED <<coll, ut, ncalls, asked, now, dirs, wr, nwrites, ed, held, lastRep>>
    /\ ReadUnchanged

\* An OSError or an interruption at mkdir, at the copy, or before os.replace.
AwFail(w) ==
    /\ pc[w] \in {"check", "copyopen", "copywrite", "replace"}
    /\ nfails < MaxFails
    /\ pc' = [pc EXCEPT ![w] = "failed"]
    /\ res' = [res EXCEPT ![w] = [status |-> "IOError", size |-> 0]]
    /\ nfails' = nfails + 1
    /\ UNCHANGED <<coll, ut, ncalls, asked, now, dirs, fs, wr, nwrites, ed, held, lastRep>>
    /\ ReadUnchanged

\* line 92, os.replace(temp_name, target): one rename.  A file handle the
\* migration script holds on the old target no longer reaches the path.
AwReplace(w) ==
    /\ pc[w] = "replace"
    /\ LET temp == TempPath(Target(w), w) IN
       /\ fs' = Remove(Put(fs, Target(w), fs[temp]), temp)
       /\ held' = held \cup {[path |-> Target(w), text |-> fs[temp]]}
    /\ wr' = [wr EXCEPT ![w].replacedExisting = Exists(fs, Target(w))]
    /\ lastRep' = Put(lastRep, Target(w), w)
    /\ ed' = IF ed.pc \in {"write", "flushed"} /\ Target(w) = EdPath
             THEN [ed EXCEPT !.detached = TRUE] ELSE ed
    /\ pc' = [pc EXCEPT ![w] = "stat"]
    /\ UNCHANGED <<coll, ut, ncalls, asked, now, dirs, res, nwrites, nfails>>
    /\ ReadUnchanged

\* lines 94-95: size and status, both from the target as it is now.
AwStat(w) ==
    /\ pc[w] = "stat"
    /\ LET existsNow == Exists(fs, Target(w)) IN
       res' = [res EXCEPT ![w] =
                  [status |-> StatusOf(existsNow),
                   size |-> IF existsNow THEN Len(fs[Target(w)]) ELSE 0]]
    /\ pc' = [pc EXCEPT ![w] = "done"]
    /\ UNCHANGED <<coll, ut, ncalls, asked, now, dirs, fs, wr, nwrites, nfails, ed, held, lastRep>>
    /\ ReadUnchanged

\* The response is sent (or the error propagates); the worker is free again.
AwReturn(w) ==
    /\ pc[w] \in {"done", "failed"}
    /\ pc' = [pc EXCEPT ![w] = "idle"]
    /\ wr' = [wr EXCEPT ![w] = NoWrite]
    /\ res' = [res EXCEPT ![w] = NoResult]
    /\ UNCHANGED <<coll, ut, ncalls, asked, now, dirs, fs, nwrites, nfails, ed, held, lastRep>>
    /\ ReadUnchanged

\* A second passes.
Tick ==
    /\ now < MaxClock
    /\ now' = now + 1
    /\ UNCHANGED <<coll, ut, ncalls, asked, dirs, fs, pc, wr, res, nwrites, nfails, ed, held, lastRep>>
    /\ ReadUnchanged

\* ------------------------------------------------------- migration script
\* editor.py lines 22-33: every statement with an openingDateTime gets (or
\* keeps) a period.
AddPeriod(stmt) ==
    IF \E i \in 1..Len(stmt.keys) : stmt.keys[i] = "openingDateTime"
    THEN IF \E i \in 1..Len(stmt.keys) : stmt.keys[i] = "period"
         THEN stmt
         ELSE Obj(Append(stmt.keys, "period"))
    ELSE stmt

AddPeriods(statements) == Arr([i \in 1..Len(statements.elems) |-> AddPeriod(statements.elems[i])])

NoEdit == [pc |-> "idle", val |-> NoValue, detached |-> FALSE, runs |-> 0]

\* add_period_field lines 9-33: the file is read and parsed; a missing file,
\* malformed JSON or a non-list ends the script before anything is written.
EdLoad ==
    /\ ed.pc = "idle"
    /\ ed.runs < MaxEdits
    /\ Exists(fs, EdPath)
    /\ LET r == Load(fs[EdPath]) IN
       IF r.ok /\ r.val.t = "arr"
       THEN ed' = [pc |-> "open", val |-> AddPeriods(r.val), detached |-> FALSE,
                   runs |-> ed.runs + 1]
       ELSE ed' = [ed EXCEPT !.runs = ed.runs + 1]
    /\ UNCHANGED <<coll, ut, ncalls, asked, now, dirs, fs, pc, wr, res, nwrites, nfails, held, lastRep>>
    /\ ReadUnchanged

\* line 36, open(file_path, "w"): the file is truncated in place.
EdOpen ==
    /\ ed.pc = "open"
    /\ fs' = Put(fs, EdPath, <<>>)
    /\ ed' = [ed EXCEPT !.pc = "write"]
    /\ UNCHANGED <<coll, ut, ncalls, asked, now, dirs, pc, wr, res, nwrites, nfails, held, lastRep>>
    /\ ReadUnchanged

\* line 37, json.dump under way: the buffer is flushed with part of the text.
EdFlush ==
    /\ ed.pc = "write"
    /\ \E part \in PartialWrites(Dump(ed.val, 2)) \ {<<>>} :
          fs' = IF ed.detached THEN fs ELSE Put(fs, EdPath, part)
    /\ ed' = [ed EXCEPT !.pc = "flushed"]
    /\ UNCHANGED <<coll, ut, ncalls, asked, now, dirs, pc, wr, res, nwrites, nfails, held, lastRep>>
    /\ ReadUnchanged

\* lines 36-37, the with block ends: the whole text is in the file.
EdClose ==
    /\ ed.pc \in {"write", "flushed"}
    /\ fs' = IF ed.detached THEN fs ELSE Put(fs, EdPath, Dump(ed.val, 2))
    /\ held' = IF ed.detached THEN held
               ELSE held \cup {[path |-> EdPath, text |-> Dump(ed.val, 2)]}
    /\ ed' = [ed EXCEPT !.pc = "idle", !.val = NoValue, !.detached = FALSE]
    /\ UNCHANGED <<coll, ut, ncalls, asked, now, dirs, pc, wr, res, nwrites, nfails, lastRep>>
    /\ ReadUnchanged

\* ------------------------------------------------------------ bundle reads
\* Every missing file defaulting to a list.
DefaultAlwaysList(d) == Arr(<<>>)

\* acc.py line 80: the default of a missing file.
DefaultFor(d) == IF d \in {"transactions", "payments", "statements"} THEN Arr(<<>>) ELSE Obj(<<>>)

DefaultBundle == [d \in Domains |-> DefaultFor(d)]

NoBundle == [d \in Domains |-> NoValue]

NoRaw == [d \in Domains |-> [present |-> FALSE, text |-> <<>>]]

\* What open(p).read() returns for each of the account's documents.
RawOf(dir, f) ==
    [d \in Domains |->
        IF Exists(f, DocPath(dir, d)) THEN [present |-> TRUE, text |-> f[DocPath(dir, d)]]
        ELSE [present |-> FALSE, text |-> <<>>]]

\* The scan stopping at the first missing file.
MissingFirstOnly(dir, f) ==
    LET all == {d \in Domains : ~Exists(f, DocPath(dir, d))} IN
    IF all = {} THEN {} ELSE {CHOOSE d \in all : TRUE}

\* acc.py line 52: missing = [k for k, p in paths.items() if not p.exists()]
MissingOf(dir, f) == {d \in Domains : ~Exists(f, DocPath(dir, d))}

NoRead ==
    [op |-> "", id |-> <<>>, kind |-> "", folder |-> FALSE, missing |-> {},
     bundle |-> NoBundle, raw |-> NoRaw, hit |-> FALSE]

\* try_load_account_bundle: FileNotFoundError of get_account_paths gives the
\* default bundle; a ValueError or a JSONDecodeError propagates.
TryLoadOf(id, dirset, f) ==
    LET paths == GetAccountPathsOf(id, dirset) IN
    IF paths.kind = "ValueError" THEN [NoRead EXCEPT !.kind = "ValueError"]
    ELSE IF paths.kind = "FileNotFoundError"
    THEN [NoRead EXCEPT !.kind = "bundle", !.bundle = DefaultBundle]
    ELSE LET raw == RawOf(paths.dir, f) IN
         IF \E d \in Domains : raw[d].present /\ ~Load(raw[d].text).ok
         THEN [NoRead EXCEPT !.kind = "JSONDecodeError", !.raw = raw]
         ELSE [NoRead EXCEPT !.kind = "bundle", !.raw = raw,
                             !.bundle = [d \in Domains |->
                                            IF raw[d].present THEN Load(raw[d].text).val
                                            ELSE DefaultFor(d)]]

\* The body of load_account_bundle (run on a cache miss).
LoadOf(id, dirset, f) ==
    LET paths == GetAccountPathsOf(id, dirset) IN
    IF paths.kind = "ValueError" THEN [NoRead EXCEPT !.kind = "ValueError"]
    ELSE IF paths.kind = "FileNotFoundError"
    THEN [NoRead EXCEPT !.kind = "FileNotFoundError", !.folder = TRUE]
    ELSE LET missing == MissingOf(paths.dir, f)
             raw == RawOf(paths.dir, f) IN
         IF missing # {}
         THEN [NoRead EXCEPT !.kind = "FileNotFoundError", !.missing = missing]
         ELSE IF \E d \in Domains : ~Load(raw[d].text).ok
         THEN [NoRead EXCEPT !.kind = "JSONDecodeError", !.raw = raw]
         ELSE [NoRead EXCEPT !.kind = "bundle", !.raw = raw,
                             !.bundle = [d \in Domains |-> Load(raw[d].text).val]]

WriteUnchanged == UNCHANGED <<coll, ut, ncalls, asked, now, dirs, fs, pc, wr, res, nwrites, nfails, ed, held, lastRep>>

\* try_load_account_bundle(account_id)
TryLoadAccountBundle(id) ==
    /\ rd' = [TryLoadOf(id, dirs, fs) EXCEPT !.op = "try_load", !.id = id]
    /\ UNCHANGED <<cache, rs>>
    /\ WriteUnchanged

\* load_account_bundle(account_id) under @lru_cache(maxsize=256): a return
\* value is stored under the argument as given; an exception is not stored.
\* Fewer than 256 ids are ever read here, so no entry is evicted.
LoadAccountBundle(id) ==
    /\ IF id \in DOMAIN cache
       THEN /\ rd' = [NoRead EXCEPT !.op = "load", !.id = id, !.kind = "bundle",
                                    !.bundle = cache[id], !.hit = TRUE]
            /\ UNCHANGED cache
       ELSE LET r == LoadOf(id, dirs, fs) IN
            /\ rd' = [r EXCEPT !.op = "load", !.id = id]
            /\ cache' = IF r.kind = "bundle" THEN Put(cache, id, r.bundle) ELSE cache
    /\ UNCHANGED rs
    /\ WriteUnchanged

\* ------------------------------------------------------------ specifications
\* The document found on disk at start (left by an earlier run), and the
\* payloads the requests carry.
OldStatements == Arr(<<Obj(<<"id">>)>>)

OldSummary == Obj(<<"id">>)

OldDoc(d) == IF d = "account_summary" THEN OldSummary ELSE OldStatements

StorePayloads == {Arr(<<>>), Arr(<<Obj(<<"openingDateTime">>)>>)}

NewDoc(d) == IF d = "account_summary" THEN Obj(<<"id", "amount">>) ELSE Arr(<<Obj(<<"openingDateTime">>)>>)

DEFAULT_INDENT == 2

\* ---------------------------------------------------------- release tags
\* The release_tags collection of mongo_util.py. A document is kept by the
\* fields update_release_tags reads or sets that differ between calls here:
\* tag_name, jira_issue_list and updated_at. jira_issue_list is written as
\* list(set), whose order is unspecified, so a stored list is kept as the set
\* of its elements.
Callers == {"c1", "c2"}

Project == "p1"

NoProject == "p9"

Projects == {Project, NoProject}

Tags == {"v1", "v2"}

StoredIssue == "J0"

\* The incoming jira_issue_list arguments. None takes the same branch as the
\* empty list at the test `if jira_issue_list:`.
IssueLists == {<<>>, <<"J1">>, <<"J2">>}

ToSet(l) == {l[i] : i \in 1..Len(l)}

Truthy(l) == Len(l) > 0

InitialTags ==
    [p \in {Project} |-> [tag_name |-> "v0", jira_issue_list |-> {StoredIssue}, updated_at |-> 0]]

NoCall ==
    [pc |-> "idle", projectId |-> "", latest_tag |-> "", jira_issue_list |-> <<>>,
     now |-> 0, combined |-> {}]

\* coll.find_one({"projectId": projectId}, {"jira_issue_list": 1})
FindOne(c, projectId) ==
    IF projectId \in DOMAIN c
        THEN [found |-> TRUE, jira_issue_list |-> c[projectId].jira_issue_list]
        ELSE [found |-> FALSE, jira_issue_list |-> {}]

\* combined = set(); the two update() calls; the order of the two is immaterial
Combined(jira_issue_list, existing) ==
    (IF Truthy(jira_issue_list) THEN ToSet(jira_issue_list) ELSE {})
        \cup (IF existing.found /\ existing.jira_issue_list # {} THEN existing.jira_issue_list ELSE {})

\* coll.update_one({"projectId": projectId}, {"$set": ...}), no upsert: a
\* projectId with no document matches nothing.
UpdateOne(c, projectId, fields) ==
    IF projectId \in DOMAIN c
        THEN [c EXCEPT ![projectId] = fields]
        ELSE c

FilesUnchanged ==
    UNCHANGED <<now, dirs, fs, pc, wr, res, nwrites, nfails, ed, rd, cache, rs, held, lastRep>>

\* update_release_tags is entered: now = datetime.utcnow()
UpdateReleaseTags(c, projectId, latest_tag, jira_issue_list) ==
    /\ ut[c].pc = "idle"
    /\ ncalls < MaxCalls
    /\ ncalls' = ncalls + 1
    /\ ut' = [ut EXCEPT ![c] = [pc |-> "find", projectId |-> projectId, latest_tag |-> latest_tag,
                                 jira_issue_list |-> jira_issue_list, now |-> now, combined |-> {}]]
    /\ asked' = [asked EXCEPT ![projectId] = @ \cup ToSet(jira_issue_list)]
    /\ UNCHANGED coll
    /\ FilesUnchanged

\* existing = coll.find_one(...); combined is built from the argument and existing
UrtFindOne(c) ==
    /\ ut[c].pc = "find"
    /\ ut' = [ut EXCEPT ![c].pc = "update",
                        ![c].combined = Combined(ut[c].jira_issue_list, FindOne(coll, ut[c].projectId))]
    /\ UNCHANGED <<coll, ncalls, asked>>
    /\ FilesUnchanged

\* coll.update_one(...) with the combined list, and the call returns
UrtUpdateOne(c) ==
    /\ ut[c].pc = "update"
    /\ coll' = UpdateOne(coll, ut[c].projectId,
                         [tag_name |-> ut[c].latest_tag, jira_issue_list |-> ut[c].combined,
                          updated_at |-> ut[c].now])
    /\ ut' = [ut EXCEPT ![c] = NoCall]
    /\ UNCHANGED <<ncalls, asked>>
    /\ FilesUnchanged

\* The files of Acct for the documents in present, each holding OldDoc.
DiskWith(present) == [n \in {DocPath(Acct, d) : d \in present} |-> Dump(OldDoc(CHOOSE d \in present : DocPath(Acct, d) = n), DEFAULT_INDENT)]

InitWith(disk, folders) ==
    /\ now = 0
    /\ fs = disk
    /\ dirs = folders
    /\ pc = [w \in Writers |-> "idle"]
    /\ wr = [w \in Writers |-> NoWrite]
    /\ res = [w \in Writers |-> NoResult]
    /\ nwrites = 0
    /\ nfails = 0
    /\ ed = NoEdit
    /\ rd = NoRead
    /\ cache = [i \in {} |-> NoBundle]
    /\ rs = NoResolve
    /\ held = {[path |-> n, text |-> disk[n]] : n \in DOMAIN disk}
    /\ lastRep = [n \in {} |-> ""]
    /\ coll = InitialTags
    /\ ut = [c \in Callers |-> NoCall]
    /\ ncalls = 0
    /\ asked = [p \in Projects |-> {}]

AtomicWrite(w) ==
    \/ AwCheck(w)
    \/ AwCopyOpen(w)
    \/ AwCopyWrite(w)
    \/ AwTempWrite(w)
    \/ AwTempFail(w)
    \/ AwFail(w)
    \/ AwReplace(w)
    \/ AwStat(w)
    \/ AwReturn(w)

\* ---- Spec: two upload workers on the statements document of one account,
\* and the clock.
Init ==
    \E present \in {{}, {"statements"}} :
        InitWith(DiskWith(present), IF present = {} THEN {} ELSE {Acct})

Next ==
    \/ \E w \in Writers, p \in StorePayloads, backup \in BOOLEAN :
          UploadSingle(w, Acct, "statements", p, DEFAULT_INDENT, backup)
    \/ \E w \in Writers : AtomicWrite(w)
    \/ Tick

Spec == Init /\ [][Next]_vars

\* ---- SpecSerial: one upload worker, so that writes never overlap, and the
\* clock.
NextSerial ==
    \/ \E p \in StorePayloads, indent \in {0, DEFAULT_INDENT}, backup \in BOOLEAN :
          UploadSingle("w1", Acct, "statements", p, indent, backup)
    \/ AtomicWrite("w1")
    \/ Tick

SpecSerial == Init /\ [][NextSerial]_vars

\* ---- SpecReaders: one upload worker, the migration script and a reader of
\* the same statements document.
NextReaders ==
    \/ \E p \in StorePayloads, backup \in BOOLEAN :
          UploadSingle("w1", Acct, "statements", p, DEFAULT_INDENT, backup)
    \/ AtomicWrite("w1")
    \/ EdLoad
    \/ EdOpen
    \/ EdFlush
    \/ EdClose
    \/ TryLoadAccountBundle(Acct)

SpecReaders == Init /\ [][NextReaders]_vars

\* ---- SpecBundle: one upload worker writing any of the four documents, and
\* the two bundle readers, on a disk that holds any of the four documents.
InitBundle ==
    \E present \in SUBSET Domains, folders \in {{}, {Acct}} :
        /\ present # {} => folders = {Acct}
        /\ InitWith(DiskWith(present), folders)

NextBundle ==
    \/ \E a \in {Acct, BadAcct}, d \in {"statements", "account_summary", "bogus"} :
          UploadSingle("w1", a, d, NewDoc(d), DEFAULT_INDENT, TRUE)
    \/ AtomicWrite("w1")
    \/ \E id \in {Acct, MissingAcct, BadAcct} : TryLoadAccountBundle(id)
    \/ \E id \in {Acct, MissingAcct, BadAcct} : LoadAccountBundle(id)
    \/ Where(MissingAcct)

SpecBundle == InitBundle /\ [][NextBundle]_vars

\* ---- SpecResolve: the path resolvers applied to every id of Ids.
InitResolve == InitWith(EmptyFs, {})

NextResolve ==
    \E id \in Ids :
        \/ AccountDir(id)
        \/ GetAccountPaths(id)
        \/ UploaderAccountDir(id)
        \/ \E d \in Domains \cup {"bogus"} : TargetPath(id, d)
        \/ Where(id)

SpecResolve == InitResolve /\ [][NextResolve]_vars

\* ---- SpecTags: two callers of update_release_tags on one collection, and
\* the clock.
InitTags == InitWith(EmptyFs, {})

NextTags ==
    \/ \E c \in Callers, p \in Projects, t \in Tags, l \in IssueLists :
          UpdateReleaseTags(c, p, t, l)
    \/ \E c \in Callers : UrtFindOne(c)
    \/ \E c \in Callers : UrtUpdateOne(c)
    \/ Tick

SpecTags == InitTags /\ [][NextTags]_vars

\* ------------------------------------------------------------------ claims
WriterStepBeforeReplace(w) ==
    /\ pc[w] \in {"check", "copyopen", "copywrite", "temp", "replace"}
    /\ pc'[w] \in {"copyopen", "copywrite", "temp", "replace", "failed"}
    /\ pc'[w] # pc[w]

SameFile(n) ==
    /\ Exists(fs', n) <=> Exists(fs, n)
    /\ Exists(fs, n) => fs'[n] = fs[n]

\* C1: whatever a reader finds when it opens a document file is a complete
\* text that some write supplied in full (or the file is absent), on every
\* path that writes the file, add_period_field included.
C1_ReaderSeesOnlyCompleteTexts ==
    rd.op = "try_load" =>
        \A d \in Domains :
            rd.raw[d].present =>
                [path |-> DocPath(Strip(rd.id), d), text |-> rd.raw[d].text] \in held

\* C2: a step of _atomic_write_json before os.replace, a failing or
\* interrupted one included, leaves the target file as it was: the same
\* content if it existed, absent if it did not.
C2_FailureBeforeReplaceKeepsTarget ==
    [][\A w \in Writers : WriterStepBeforeReplace(w) => SameFile(Target(w))]_vars

\* A write interrupted after the temporary file was written in full and the
\* backup taken, before os.replace.
C2_Witness ==
    \E w \in Writers :
        /\ pc[w] = "failed"
        /\ wr[w].existed
        /\ wr[w].ts >= 0
        /\ Exists(fs, BackupPath(Target(w), wr[w].ts))
        /\ Exists(fs, TempPath(Target(w), w))
        /\ fs[TempPath(Target(w), w)] = Dump(wr[w].payload, wr[w].indent)
        /\ Exists(fs, Target(w))
        /\ fs[Target(w)] # Dump(wr[w].payload, wr[w].indent)

\* C3: a successful write returns "created" when the target did not exist
\* before the replace step and "updated" when it did.
C3_StatusTellsCreatedFromUpdated ==
    \A w \in Writers :
        pc[w] = "done" =>
            res[w].status = IF wr[w].replacedExisting THEN "updated" ELSE "created"

\* C4: a write with backup_existing=true to an existing target adds exactly
\* one new backup file, holding the content the target had; a write with
\* backup_existing=false adds none.  Stated of writes that follow one another
\* (SpecSerial) in a run where no write has failed: the least the claim says.
C4_EveryBackupIsANewFile ==
    [][\A w \in Writers :
          nfails = 0 =>
              /\ (pc[w] = "copyopen" /\ pc'[w] = "copywrite") =>
                     Cardinality(BackupsIn(fs')) = Cardinality(BackupsIn(fs)) + 1
              /\ (pc[w] = "copywrite" /\ pc'[w] = "temp") =>
                     /\ BackupsIn(fs') = BackupsIn(fs)
                     /\ fs'[BackupPath(Target(w), wr[w].ts)] = fs[Target(w)]
              /\ (pc[w] # "idle" /\ ~wr[w].backup) => BackupsIn(fs') = BackupsIn(fs)]_vars

\* C5: once two writes of the same existing document with backups enabled
\* are both complete, the target holds the payload of the write whose replace
\* ran last and every text the target held before is in some backup file.
C5_ConcurrentWritesLoseNothing ==
    (\A w \in Writers :
        pc[w] = "done" /\ wr[w].backup /\ wr[w].existed /\ Target(w) = EdPath) =>
        /\ fs[EdPath] = Dump(wr[lastRep[EdPath]].payload, wr[lastRep[EdPath]].indent)
        /\ \A h \in held :
              (h.path = EdPath /\ h.text # fs[EdPath]) =>
                  \E b \in BackupsIn(fs) : fs[b] = h.text

\* C6: a write with backup_existing=true that found its target existing (the
\* test of line 79) never has the new content in the target while its
\* backup file does not exist.
C6_BackupExistsBeforeReplace ==
    \A w \in Writers :
        (pc[w] \in {"stat", "done"} /\ wr[w].backup /\ wr[w].existed) =>
            /\ wr[w].ts >= 0
            /\ Exists(fs, BackupPath(Target(w), wr[w].ts))

\* The replace has run on an existing target and the backup holds what the
\* target held.
C6_Witness ==
    \E w \in Writers :
        /\ pc[w] = "stat"
        /\ wr[w].backup
        /\ wr[w].existed
        /\ wr[w].ts >= 0
        /\ Exists(fs, BackupPath(Target(w), wr[w].ts))
        /\ fs[BackupPath(Target(w), wr[w].ts)] = wr[w].src
        /\ fs[Target(w)] = Dump(wr[w].payload, wr[w].indent)
        /\ fs[Target(w)] # wr[w].src

HasUnsafeChar(id) == \E i \in 1..Len(id) : id[i] \notin SafeChars

\* C7: an account id with a character outside [A-Za-z0-9_-] makes each of
\* account_dir, get_account_paths, _target_path and _account_dir fail with the
\* invalid-identifier error and return no path.
C7_UnsafeIdNeverResolves ==
    (rs.fn \in {"account_dir", "get_account_paths", "_target_path", "_account_dir"}
        /\ HasUnsafeChar(rs.id)) => rs.kind = "ValueError"

\* C8: a bundle read that follows a successful write of payload P to a
\* document, while the file still holds what that write put there, returns P
\* for that document, through try_load_account_bundle and through the
\* memoized load_account_bundle alike.
C8_ReadAfterWriteReturnsPayload ==
    [][rd' # rd =>
          \A w \in Writers :
              (/\ pc[w] = "done"
               /\ wr[w].acct = Strip(rd'.id)
               /\ fs[Target(w)] = Dump(wr[w].payload, wr[w].indent)
               /\ rd'.kind = "bundle")
                  => rd'.bundle[wr[w].domain] = wr[w].payload]_vars

\* The files of account dir that do not exist.
AbsentFiles(dir) == {d \in Domains : DocPath(dir, d) \notin DOMAIN fs}

StrictRead == rd' # rd /\ rd'.op = "load"

\* C9 as claimed: load_account_bundle fails with a not-found error that lists
\* every missing file, all four when the folder itself is absent, and returns
\* a bundle only when all four files exist.
C9_NotFoundListsEveryMissingFile ==
    [][StrictRead =>
          LET dir == Strip(rd'.id) IN
          /\ (dir \notin dirs \/ AbsentFiles(dir) # {}) =>
                 /\ rd'.kind = "FileNotFoundError"
                 /\ rd'.missing = IF dir \notin dirs THEN Domains ELSE AbsentFiles(dir)
          /\ rd'.kind = "bundle" => (dir \in dirs /\ AbsentFiles(dir) = {})]_vars

\* C9 as amended: for an account id the sanitizer accepts, load_account_bundle
\* fails with a not-found error when the folder is absent (the error names the
\* folder and lists no file) or when a file is missing (the error lists every
\* missing file), and returns a bundle only when all four files exist.
C9_NotFoundNamesFolderOrMissingFiles ==
    [][(StrictRead /\ AllSafe(Strip(rd'.id))) =>
          LET dir == Strip(rd'.id) IN
          /\ dir \notin dirs =>
                 (rd'.kind = "FileNotFoundError" /\ rd'.folder /\ rd'.missing = {})
          /\ (dir \in dirs /\ AbsentFiles(dir) # {}) =>
                 (rd'.kind = "FileNotFoundError" /\ ~rd'.folder
                     /\ rd'.missing = AbsentFiles(dir))
          /\ rd'.kind = "bundle" => (dir \in dirs /\ AbsentFiles(dir) = {})]_vars

\* A strict read of an existing folder that lacks several files has listed
\* them all.
C9_Witness ==
    /\ rd.op = "load"
    /\ rd.kind = "FileNotFoundError"
    /\ ~rd.folder
    /\ Cardinality(rd.missing) >= 2
    /\ rd.missing = AbsentFiles(Strip(rd.id))
    /\ rd.missing # Domains

\* The documents the bundle specification's files can hold.
KnownDocs == {OldDoc(d) : d \in Domains} \cup {NewDoc(d) : d \in Domains}

ExpectedDefaults ==
    [transactions |-> Arr(<<>>), payments |-> Arr(<<>>), statements |-> Arr(<<>>),
     account_summary |-> Obj(<<>>)]

\* C10: try_load_account_bundle does not raise for a missing account: with the
\* folder absent it returns the default bundle; with the folder present every
\* missing file yields its default and every present file its content.
C10_TryLoadDefaultsWhatIsMissing ==
    [][(rd' # rd /\ rd'.op = "try_load" /\ AllSafe(Strip(rd'.id))) =>
          LET dir == Strip(rd'.id) IN
          /\ dir \notin dirs => (rd'.kind = "bundle" /\ rd'.bundle = ExpectedDefaults)
          /\ (dir \in dirs /\ \A d \in Domains \ AbsentFiles(dir) :
                                 \E v \in KnownDocs : fs[DocPath(dir, d)] = Dump(v, DEFAULT_INDENT)) =>
                 /\ rd'.kind = "bundle"
                 /\ \A d \in AbsentFiles(dir) : rd'.bundle[d] = ExpectedDefaults[d]
                 /\ \A d \in Domains \ AbsentFiles(dir) :
                       fs[DocPath(dir, d)] = Dump(rd'.bundle[d], DEFAULT_INDENT)]_vars

\* A non-raising read of a folder that holds some of the documents and lacks
\* account_summary.json returned contents and defaults side by side.
C10_Witness ==
    /\ rd.op = "try_load"
    /\ rd.kind = "bundle"
    /\ ~rd.raw["account_summary"].present
    /\ rd.bundle["account_summary"] = Obj(<<>>)
    /\ rd.raw["statements"].present
    /\ rd.bundle["statements"] = NewDoc("statements")
    /\ ~rd.raw["payments"].present

\* C11: once every update_release_tags call for the existing projectId has
\* completed, in any interleaving of the find_one and update_one steps, the
\* stored jira_issue_list holds every issue of every call's incoming list and
\* every issue stored before the first call.
C11_StoredListIsTheUnion ==
    (\A c \in Callers : ut[c].pc = "idle") =>
        (asked[Project] \cup InitialTags[Project].jira_issue_list)
            \subseteq coll[Project].jira_issue_list

====
